---- MODULE Spec2Model ----
(***************************************************************************)
(* Financial term standardisation backend: the term dictionary             *)
(* (DataLoader), the semantic retrieval service (VectorService) and the    *)
(* matching / replacement engine (TermService).                            *)
(*                                                                         *)
(* A Python str is a sequence of one-character strings.  A similarity is   *)
(* an integer number of 1e-5 units (SimOne = 1.0); a score is an integer   *)
(* number of hundredths (ExactScore = 100.0).                              *)
(***************************************************************************)
EXTENDS Integers, Sequences, FiniteSets, TLC

\* ------------------------------------------------------------------ text

Upper == {"A", "B", "C"}
LowerCase == {"a", "b", "c"}
AsciiLetter == Upper \cup LowerCase
Digit == {"1"}
CJK == {"zh1", "zh2"}
Whitespace == {" ", "\t"}
TokPunct == {"-", "/", "&"}

\* [A-Za-z0-9\-/\&]
TokChar == AsciiLetter \cup Digit \cup TokPunct

\* \w of a str pattern: letters, digits and the underscore of every script
IsWord(c) == c \in AsciiLetter \cup Digit \cup CJK \cup {"_"}

LowerChar(c) ==
    CASE c = "A" -> "a"
      [] c = "B" -> "b"
      [] c = "C" -> "c"
      [] OTHER -> c

\* the missing value pandas reads from an empty cell
NaN == <<"NaN">>

StrLower(s) == [i \in 1..Len(s) |-> LowerChar(s[i])]

RECURSIVE LStrip(_)
LStrip(s) ==
    IF s # <<>> /\ Head(s) \in Whitespace THEN LStrip(Tail(s)) ELSE s

RECURSIVE RStrip(_)
RStrip(s) ==
    IF s # <<>> /\ s[Len(s)] \in Whitespace
        THEN RStrip(SubSeq(s, 1, Len(s) - 1))
        ELSE s

\* a strip that forgets the trailing whitespace
StrStripLeftOnly(s) == LStrip(s)

\* str.strip()
StrStrip(s) == RStrip(LStrip(s))

\* ------------------------------------------------------------------ re

\* \b before position p (1..Len(s)+1)
Boundary(s, p) ==
    LET left == p > 1 /\ IsWord(s[p - 1])
        right == p <= Len(s) /\ IsWord(s[p])
    IN  left # right

\* the last index of the longest run of characters of class cls that starts
\* at p (p - 1 when the run is empty)
RECURSIVE RunEnd(_, _, _)
RunEnd(s, p, cls) ==
    IF p <= Len(s) /\ s[p] \in cls THEN RunEnd(s, p + 1, cls) ELSE p - 1

\* the largest e in lo..hi with a \b after it, 0 when there is none: the
\* greedy * giving characters back until the closing \b holds
RECURSIVE LastBoundary(_, _, _)
LastBoundary(s, lo, hi) ==
    IF hi < lo THEN 0
    ELSE IF Boundary(s, hi + 1) THEN hi
    ELSE LastBoundary(s, lo, hi - 1)

\* [A-Za-z][A-Za-z0-9\-/\&]*(\s+[A-Za-z][A-Za-z0-9\-/\&]*){n-1}\b from p:
\* the index of the last matched character, 0 when there is no match
RECURSIVE MatchTokens(_, _, _)
MatchTokens(s, p, n) ==
    IF p > Len(s) \/ s[p] \notin AsciiLetter THEN 0
    ELSE LET g == RunEnd(s, p + 1, TokChar)
         IN  IF n = 1 THEN LastBoundary(s, p, g)
             ELSE LET w == RunEnd(s, g + 1, Whitespace)
                  IN  IF w = g THEN 0 ELSE MatchTokens(s, w + 1, n - 1)

WordsAt(s, p, n) == IF Boundary(s, p) THEN MatchTokens(s, p, n) ELSE 0

\* the bounds of [一-鿿]{2,6}
CjkMin == 2
CjkMax == 6

Min(a, b) == IF a < b THEN a ELSE b

CjkAt(s, p) ==
    LET g == Min(RunEnd(s, p, CJK), p + CjkMax - 1)
    IN  IF g - p + 1 >= CjkMin THEN g ELSE 0

\* \b + re.escape(original) + \b from p, under re.IGNORECASE or not
LiteralAt(s, p, original, ignorecase) ==
    LET e == p + Len(original) - 1
        same(c, d) == IF ignorecase THEN LowerChar(c) = LowerChar(d) ELSE c = d
    IN  IF /\ original # <<>>
           /\ e <= Len(s)
           /\ Boundary(s, p)
           /\ \A i \in 1..Len(original) : same(s[p + i - 1], original[i])
           /\ Boundary(s, e + 1)
        THEN e ELSE 0

\* the patterns of identify_and_replace_terms
WordsPattern(n) == [re |-> "words", n |-> n]
CjkPattern == [re |-> "cjk"]
LiteralPattern(original, ignorecase) ==
    [re |-> "literal", original |-> original, ignorecase |-> ignorecase]

\* the index of the last character of the match of pattern at p, 0 when the
\* pattern does not match there
MatchAt(pattern, s, p) ==
    CASE pattern.re = "words" -> WordsAt(s, p, pattern.n)
      [] pattern.re = "cjk" -> CjkAt(s, p)
      [] pattern.re = "literal" ->
            LiteralAt(s, p, pattern.original, pattern.ignorecase)

\* the scan shared by re.findall and re.sub: the leftmost non-overlapping
\* matches from p on, each <<first, last>>
RECURSIVE Spans(_, _, _)
Spans(pattern, s, p) ==
    IF p > Len(s) THEN <<>>
    ELSE LET e == MatchAt(pattern, s, p)
         IN  IF e = 0 THEN Spans(pattern, s, p + 1)
             ELSE <<(<<p, e>>)>> \o Spans(pattern, s, e + 1)

ReFindAll(pattern, s) ==
    LET sp == Spans(pattern, s, 1)
    IN  [k \in 1..Len(sp) |-> SubSeq(s, sp[k][1], sp[k][2])]

\* s from p on with every span of sp (from the k-th) replaced by repl
RECURSIVE Splice(_, _, _, _, _)
Splice(s, p, sp, k, repl) ==
    IF k > Len(sp) THEN SubSeq(s, p, Len(s))
    ELSE SubSeq(s, p, sp[k][1] - 1) \o repl
            \o Splice(s, sp[k][2] + 1, sp, k + 1, repl)

ReSub(pattern, repl, s) == Splice(s, 1, Spans(pattern, s, 1), 1, repl)

\* ------------------------------------------------------------------ numbers

\* 1e-5 units in 1e-4: what round(x, 4) rounds to
Round4Unit == 10
SimOne == 10000 * Round4Unit

\* round() of Python: to the nearest multiple of d, a tie to the even one
RoundHalfEven(n, d) ==
    LET q == n \div d
        r == n % d
    IN  IF 2 * r < d THEN q
        ELSE IF 2 * r > d THEN q + 1
        ELSE IF q % 2 = 0 THEN q ELSE q + 1

\* round(similarity, 4), in 1e-5 units
Round4(x) == RoundHalfEven(x, Round4Unit) * Round4Unit

\* round(similarity * 100, 2), in hundredths
Score(x) == RoundHalfEven(x * 100 * 100, SimOne)

ExactScore == 100 * 100

\* f'{threshold:.2f}', in hundredths
Fmt2(x) == RoundHalfEven(x * 100, SimOne)

\* ------------------------------------------------------------------ DataLoader

\* terms_df after dropna(subset=['term'])
DropNa(rows) == SelectSeq(rows, LAMBDA r : r.term # NaN)

\* terms_df after drop_duplicates(subset=['term']): the first row of each term
DropDuplicates(rows) ==
    LET first(i) == \A j \in 1..(i - 1) : rows[j].term # rows[i].term
        RECURSIVE keep(_)
        keep(i) ==
            IF i > Len(rows) THEN <<>>
            ELSE (IF first(i) THEN <<rows[i]>> ELSE <<>>) \o keep(i + 1)
    IN  keep(1)

\* terms_df['term'].str.strip()
StripTerms(rows) ==
    [i \in 1..Len(rows) |-> [rows[i] EXCEPT !.term = StrStrip(@)]]

load_data(rows) == StripTerms(DropDuplicates(DropNa(rows)))

\* an exact search that compares case-sensitively
search_exact_case_sensitive(df, query) ==
    LET matches == SelectSeq(df, LAMBDA r : r.term = query)
    IN  [i \in 1..Len(matches) |->
            [term |-> matches[i].term, label |-> matches[i].label,
             match_type |-> "exact"]]

search_exact(df, query) ==
    LET matches == SelectSeq(df, LAMBDA r : StrLower(r.term) = StrLower(query))
    IN  [i \in 1..Len(matches) |->
            [term |-> matches[i].term, label |-> matches[i].label,
             match_type |-> "exact"]]

\* ------------------------------------------------------------------ VectorService

\* what a call returns or raises
Returns(v) == [raised |-> FALSE, value |-> v]
Raises == [raised |-> TRUE, value |-> <<>>]

\* The answer of the embedding model and the collection to one query: a
\* failure, or the documents of the collection nearest first, each with its
\* raw similarity 1 / (1 + distance).
Fails == [fail |-> TRUE, ranking |-> <<>>]
Ranks(ranking) == [fail |-> FALSE, ranking |-> ranking]

search_similar(is_initialized, query, top_k, reply) ==
    IF ~is_initialized THEN Raises
    ELSE IF query = <<>> THEN Returns(<<>>)
    ELSE IF reply.fail THEN Raises
    ELSE LET n == Min(top_k, Len(reply.ranking))
         IN  Returns([k \in 1..n |->
                 [term |-> reply.ranking[k].term,
                  similarity |-> Round4(reply.ranking[k].raw),
                  match_type |-> "semantic"]])

\* ------------------------------------------------------------------ TermService

\* Python's None
None == <<"None">>

\* the semantic collaborator of a TermService: None, or a VectorService
\* whose is_initialized is FALSE or TRUE
VectorServices == {"None", "uninitialized", "initialized"}

\* a test that forgets is_initialized
AvailableIfPresent(vs) == vs # "None"

\* `self.vector_service and self.vector_service.is_initialized`
Available(vs) == vs = "initialized"

\* one call of search_similar, as the caller sees it and as the log keeps it
Call(item, query, top_k, reply) ==
    [item |-> item, query |-> query, top_k |-> top_k, reply |-> reply]

\* the number of results standardize asks for
StandardizeTopK == 5

\* what a block of statements does: it returns a value, raises, or falls
\* through to the statement after it
Return(v) == [kind |-> "return", value |-> v]
Raise == [kind |-> "raise", value |-> <<>>]
Fall == [kind |-> "fall", value |-> <<>>]

\* a threshold test that rejects a similarity equal to the threshold
ReachesThresholdStrict(similarity, threshold) == similarity > threshold

\* `similarity >= threshold`
ReachesThreshold(similarity, threshold) == similarity >= threshold

\* lines 74-113: the body of the try of standardize
SemanticBlock(vs, query, semantic_threshold, reply) ==
    LET res == search_similar(vs = "initialized", query, StandardizeTopK, reply)
    IN  IF res.raised THEN Raise
        ELSE IF res.value = <<>> THEN Fall
        ELSE LET semantic_results == res.value
                 best_semantic == semantic_results[1]
                 semantic_similarity == best_semantic.similarity
                 candidates ==
                     [k \in 1..Len(semantic_results) |->
                         [term |-> semantic_results[k].term,
                          score |-> Score(semantic_results[k].similarity),
                          similarity |-> semantic_results[k].similarity,
                          source |-> "semantic"]]
             IN  IF ReachesThreshold(semantic_similarity, semantic_threshold)
                 THEN Return([query |-> query,
                              standard_term |-> best_semantic.term,
                              score |-> Score(semantic_similarity),
                              match_type |-> "semantic",
                              similarity |-> Round4(semantic_similarity),
                              message |-> <<"semantic">>,
                              candidates |-> candidates])
                 ELSE Return([query |-> query,
                              standard_term |-> None,
                              score |-> Score(semantic_similarity),
                              match_type |-> "semantic_low",
                              similarity |-> Round4(semantic_similarity),
                              message |-> <<"semantic_low", Fmt2(semantic_threshold)>>,
                              candidates |-> candidates])

\* an except clause that lets the failure through
ExceptNothing(block) == block

\* `except Exception as e: logger.error(...)`: the failure is logged and the
\* statement after the try runs
ExceptException(block) == IF block.kind = "raise" THEN Fall ELSE block

\* standardize(query, semantic_threshold): what it returns or raises, and the
\* calls of search_similar it makes (reply is the collaborator's answer to
\* the call, when there is one)
standardize(df, vs, query, semantic_threshold, item, reply) ==
    IF query = <<>>
    THEN [out |-> Returns([query |-> query, standard_term |-> None, score |-> 0,
                           match_type |-> "none", message |-> <<"empty">>,
                           candidates |-> <<>>]),
          calls |-> <<>>]
    ELSE LET exact_matches == search_exact(df, query)
         IN  IF exact_matches # <<>>
             THEN [out |-> Returns([query |-> query,
                                    standard_term |-> exact_matches[1].term,
                                    score |-> ExactScore,
                                    match_type |-> "exact",
                                    similarity |-> SimOne,
                                    message |-> <<"exact">>,
                                    candidates |-> <<>>]),
                   calls |-> <<>>]
             ELSE LET block ==
                          IF Available(vs)
                          THEN ExceptException(
                                   SemanticBlock(vs, query, semantic_threshold, reply))
                          ELSE Fall
                      calls ==
                          IF Available(vs)
                          THEN <<Call(item, query, StandardizeTopK, reply)>>
                          ELSE <<>>
                  IN  CASE block.kind = "return" ->
                              [out |-> Returns(block.value), calls |-> calls]
                        [] block.kind = "raise" ->
                              [out |-> Raises, calls |-> calls]
                        [] block.kind = "fall" ->
                              [out |-> Returns([query |-> query,
                                                standard_term |-> None,
                                                score |-> 0,
                                                match_type |-> "none",
                                                message |-> <<"none", Fmt2(semantic_threshold)>>,
                                                candidates |-> <<>>]),
                               calls |-> calls]

\* the results get_similar_terms asks for beyond limit
Oversample == 5

\* a filter that compares the terms case-sensitively
KeepsSimilarCaseSensitive(result, term, threshold) ==
    result.term # term /\ result.similarity >= threshold

\* `result['term'].lower() != term.lower() and result['similarity'] >= threshold`
KeepsSimilar(result, term, threshold) ==
    StrLower(result.term) # StrLower(term) /\ result.similarity >= threshold

\* `for result in results` of get_similar_terms, from the k-th result on
RECURSIVE CollectSimilar(_, _, _, _, _, _)
CollectSimilar(found, k, similar_terms, term, limit, threshold) ==
    IF k > Len(found) THEN similar_terms
    ELSE IF KeepsSimilar(found[k], term, threshold)
    THEN LET longer == Append(similar_terms,
                              [term |-> found[k].term,
                               similarity |-> Round4(found[k].similarity)])
         IN  IF Len(longer) >= limit THEN longer
             ELSE CollectSimilar(found, k + 1, longer, term, limit, threshold)
    ELSE CollectSimilar(found, k + 1, similar_terms, term, limit, threshold)

\* lines 173-187: the body of the try of get_similar_terms
SimilarBlock(vs, term, limit, threshold, reply) ==
    LET res == search_similar(vs = "initialized", term, limit + Oversample, reply)
    IN  IF res.raised THEN Raise
        ELSE Return(CollectSimilar(res.value, 1, <<>>, term, limit, threshold))

\* `except Exception as e: logger.error(...); return []`
ExceptReturnEmpty(block) == IF block.kind = "raise" THEN Return(<<>>) ELSE block

get_similar_terms(vs, term, limit, threshold, reply) ==
    IF ~Available(vs) THEN [out |-> Returns(<<>>), calls |-> <<>>]
    ELSE LET block == ExceptReturnEmpty(SimilarBlock(vs, term, limit, threshold, reply))
             calls == <<Call(0, term, limit + Oversample, reply)>>
         IN  IF block.kind = "raise" THEN [out |-> Raises, calls |-> calls]
             ELSE [out |-> Returns(block.value), calls |-> calls]

\* an extraction loop whose seen set holds the spans as written
RECURSIVE CollectTermsCaseSensitive(_, _, _)
CollectTermsCaseSensitive(acc, spans, min_length) ==
    IF spans = <<>> THEN acc
    ELSE LET word == Head(spans)
         IN  IF Len(word) >= min_length /\ word \notin acc.seen
             THEN CollectTermsCaseSensitive(
                      [potential_terms |-> Append(acc.potential_terms, word),
                       seen |-> acc.seen \cup {word}],
                      Tail(spans), min_length)
             ELSE CollectTermsCaseSensitive(acc, Tail(spans), min_length)

\* one of the four `for ... in re.findall(...)` loops of the extraction: a
\* span joins potential_terms when it is long enough and its lowercase is
\* not in seen
RECURSIVE CollectTerms(_, _, _)
CollectTerms(acc, spans, min_length) ==
    IF spans = <<>> THEN acc
    ELSE LET word == Head(spans)
             word_lower == StrLower(word)
         IN  IF Len(word) >= min_length /\ word_lower \notin acc.seen
             THEN CollectTerms([potential_terms |-> Append(acc.potential_terms, word),
                                seen |-> acc.seen \cup {word_lower}],
                               Tail(spans), min_length)
             ELSE CollectTerms(acc, Tail(spans), min_length)

\* lines 220-253: single words, bigrams, trigrams, runs of Chinese characters
ExtractTerms(text, min_word_length) ==
    LET start == [potential_terms |-> <<>>, seen |-> {}]
        single_words == CollectTerms(start, ReFindAll(WordsPattern(1), text),
                                     min_word_length)
        bigrams == CollectTerms(single_words, ReFindAll(WordsPattern(2), text), 0)
        trigrams == CollectTerms(bigrams, ReFindAll(WordsPattern(3), text), 0)
        chinese_terms == CollectTerms(trigrams, ReFindAll(CjkPattern, text), 0)
    IN  chinese_terms.potential_terms

IdentifiedTerm(original, standard, similarity, match_type) ==
    [original |-> original, standard |-> standard,
     similarity |-> similarity, match_type |-> match_type]

\* the results the identification pass asks for
IdentifyTopK == 1

\* a comparison with the standard term that ignores case
DiffersIgnoringCase(term, standard_term) == StrLower(term) # StrLower(standard_term)

\* `if term != standard_term`
DiffersFromStandard(term, standard_term) == term # standard_term

\* lines 263-291: the body of the try of the identification loop, for one
\* potential term: the identified terms it adds (none or one)
CandidateBlock(df, term, similarity_threshold, reply) ==
    LET exact_matches == search_exact(df, term)
    IN  IF exact_matches # <<>>
        THEN LET standard_term == exact_matches[1].term
             IN  IF DiffersFromStandard(term, standard_term)
                 THEN Return(<<IdentifiedTerm(term, standard_term, SimOne, "exact")>>)
                 ELSE Return(<<>>)
        ELSE LET res == search_similar(TRUE, term, IdentifyTopK, reply)
             IN  IF res.raised THEN Raise
                 ELSE IF /\ res.value # <<>>
                         /\ ReachesThreshold(res.value[1].similarity, similarity_threshold)
                         /\ StrLower(term) # StrLower(res.value[1].term)
                 THEN Return(<<IdentifiedTerm(term, res.value[1].term,
                                              res.value[1].similarity, "semantic")>>)
                 ELSE Return(<<>>)

\* the calls of search_similar CandidateBlock makes
CandidateCalls(df, term, item, reply) ==
    IF search_exact(df, term) # <<>> THEN <<>>
    ELSE <<Call(item, term, IdentifyTopK, reply)>>

\* `except Exception as e: logger.error(...); continue`
ExceptContinue(block) == IF block.kind = "raise" THEN Return(<<>>) ELSE block

\* a sort by ascending length
SortedByLengthAscending(terms) ==
    LET RECURSIVE insert(_, _)
        insert(sorted, x) ==
            IF sorted = <<>> THEN <<x>>
            ELSE IF Len(Head(sorted).original) <= Len(x.original)
            THEN <<Head(sorted)>> \o insert(Tail(sorted), x)
            ELSE <<x>> \o sorted
        RECURSIVE sort(_, _)
        sort(sorted, k) ==
            IF k > Len(terms) THEN sorted ELSE sort(insert(sorted, terms[k]), k + 1)
    IN  sort(<<>>, 1)

\* sorted(identified_terms, key=lambda x: len(x['original']), reverse=True):
\* stable, so terms of one length keep their order
SortedByLength(terms) ==
    LET RECURSIVE insert(_, _)
        insert(sorted, x) ==
            IF sorted = <<>> THEN <<x>>
            ELSE IF Len(Head(sorted).original) >= Len(x.original)
            THEN <<Head(sorted)>> \o insert(Tail(sorted), x)
            ELSE <<x>> \o sorted
        RECURSIVE sort(_, _)
        sort(sorted, k) ==
            IF k > Len(terms) THEN sorted ELSE sort(insert(sorted, terms[k]), k + 1)
    IN  sort(<<>>, 1)

\* a count that forgets the \b on both sides: every place where the original
\* stands, inside a word or not
CountMatchesAnywhere(original, text) ==
    Cardinality({p \in 1..(Len(text) - Len(original) + 1) :
                    \A k \in 1..Len(original) :
                        LowerChar(text[p + k - 1]) = LowerChar(original[k])})

\* a count that forgets re.IGNORECASE
CountMatchesCaseSensitive(original, text) ==
    Len(ReFindAll(LiteralPattern(original, FALSE), text))

\* len(re.findall(pattern, processed_text, re.IGNORECASE))
CountMatches(original, text) ==
    Len(ReFindAll(LiteralPattern(original, TRUE), text))

\* re.sub(pattern, standard, processed_text, flags=re.IGNORECASE)
Substitute(original, standard, text) ==
    ReSub(LiteralPattern(original, TRUE), standard, text)

ReplacementRecord(item, count) ==
    [original |-> item.original, standard |-> item.standard, count |-> count,
     similarity |-> item.similarity, match_type |-> item.match_type]

RECURSIVE SumCounts(_)
SumCounts(records) ==
    IF records = <<>> THEN 0 ELSE Head(records).count + SumCounts(Tail(records))

\* ------------------------------------------------------------------ inputs

MaxRank == 2
MaxBatch == 2
MaxLimit == 2
MaxTextLen == 3
max_items == 2
MaxAdds == 4

Row(term) == [term |-> term, label |-> "L"]

\* the rows of the dictionary file after the header line
CsvFiles ==
    { <<Row(<<"A">>), Row(NaN), Row(<<"a">>), Row(<<"B", " ">>)>>,
      <<Row(<<"A", "b">>), Row(<<" ">>), Row(<<"A", "b">>)>>,
      <<Row(<<"a", " ", "b">>), Row(<<"B">>), Row(<<"B", " ">>)>> }

\* the documents a collection may hold and the raw similarities it may give
RankTerms == {<<"A">>, <<"b">>, <<"a", " ", "b">>}
RawSims == {30000, 50004, 64996, 72000}

Entry(term, raw) == [term |-> term, raw |-> raw]

\* every ranking of at most n documents, nearest (most similar) first
RECURSIVE Rankings(_)
Rankings(n) ==
    IF n = 0 THEN {<<>>}
    ELSE LET shorter == Rankings(n - 1)
         IN  shorter \cup
             UNION { { Append(r, Entry(t, x)) :
                           t \in RankTerms,
                           x \in {y \in RawSims : n = 1 \/ y <= r[n - 1].raw} } :
                     r \in {q \in shorter : Len(q) = n - 1} }

\* a ranking of n documents, longer than the caller asks for
LongRanking(n) ==
    [k \in 1..n |->
        Entry(IF k % 2 = 1 THEN <<"b">> ELSE <<"A">>,
              IF k <= 2 THEN 72000 ELSE 64996)]

\* the answers of the collaborator to one call
Replies(long) ==
    {Fails} \cup {Ranks(r) : r \in Rankings(MaxRank) \cup {LongRanking(long)}}

\* the answers drawn inside a loop over items
ItemReplies ==
    { Fails, Ranks(<<>>),
      Ranks(<<Entry(<<"b">>, 50004)>>),
      Ranks(<<Entry(<<"A">>, 72000), Entry(<<"b">>, 64996)>>) }

Thresholds == {50003, 65000}

Queries ==
    {<<>>, <<" ">>, <<"a">>, <<"A">>, <<" ", "a">>, <<"a", "b">>, <<"c", "\t">>}

ReferenceTerms == {<<>>, <<"a">>, <<"B">>, <<"c">>}

\* the document of the collection nearest to a query
NearestDoc(query) ==
    LET q == StrLower(query)
    IN  CASE q = <<"b">> -> <<"b", "c">>
          [] q = <<"a", " ", "b">> -> <<"a", "b", "c">>
          [] q = <<"a", "b">> -> <<"b", " ", "b">>
          [] q = <<"a">> -> <<"A">>
          [] OTHER -> <<"c">>

\* the answers of the collaborator to a call of the identification pass
TextReplies(query) ==
    { Fails, Ranks(<<>>),
      Ranks(<<Entry(NearestDoc(query), 60004)>>),
      Ranks(<<Entry(NearestDoc(query), 72000), Entry(<<"c">>, 30000)>>) }

TextAlphabet == {"a", "A", "b", " "}

\* texts longer than MaxTextLen: repeated and nested phrases, Chinese runs,
\* hyphens
ExtraTexts ==
    { <<"a", " ", "A", " ", "a">>,
      <<"a", " ", "b", " ", "c">>,
      <<"a", "b", " ", "b", " ", "A", "B">>,
      <<"a", "-", "b", " ", "a", "-">>,
      <<"zh1", "zh2", "zh1", "zh2", "zh1", "zh2", "zh1", "zh1">>,
      <<"zh1", "a", " ", "b", "\t", "zh1", "zh2">> }

MinWordLengths == {1, 2}

RECURSIVE SeqsUpTo(_, _)
SeqsUpTo(S, n) ==
    IF n = 0 THEN {<<>>}
    ELSE LET shorter == SeqsUpTo(S, n - 1)
         IN  shorter \cup {Append(q, x) : q \in shorter, x \in S}

Texts == SeqsUpTo(TextAlphabet, MaxTextLen) \cup ExtraTexts

\* ------------------------------------------------------------------ state

VARIABLES
    terms_df,           \* DataLoader.terms_df, loaded
    vector_service,     \* TermService.vector_service and its is_initialized
    pc,                 \* where the running call is
    args,               \* the arguments of the running call
    results,            \* batch_standardize: the results so far
    calls,              \* the calls of search_similar the running call made
    ret,                \* what the call returned
    turn,               \* identify_and_replace_terms: the turn of the running loop
    potential_terms,
    identified_terms,
    sorted_terms,
    processed_text,
    replacement_records,
    substitutions       \* the turns of the replacement loop so far

textVars == <<turn, potential_terms, identified_terms, sorted_terms,
              processed_text, replacement_records, substitutions>>

VARIABLES
    history_file,       \* HistoryService: the list the history file holds
    now,                \* datetime.now(), in ticks
    added,              \* every record add_record built, oldest first
    cleared_at          \* how many records had been added at the last clear_history

historyVars == <<history_file, now, added, cleared_at>>

vars == <<terms_df, vector_service, pc, args, results, calls, ret, textVars,
          historyVars>>

NoArgs == [op |-> "none"]

Init ==
    /\ \E file \in CsvFiles : terms_df = load_data(file)
    /\ vector_service \in VectorServices
    /\ pc = "idle"
    /\ args = NoArgs
    /\ results = <<>>
    /\ calls = <<>>
    /\ ret = <<>>
    /\ turn = 0
    /\ potential_terms = <<>>
    /\ identified_terms = <<>>
    /\ sorted_terms = <<>>
    /\ processed_text = <<>>
    /\ replacement_records = <<>>
    /\ substitutions = <<>>
    /\ history_file = <<>>
    /\ now = 1
    /\ added = <<>>
    /\ cleared_at = 0

\* VectorService.initialize, run at startup or later
Initialize ==
    /\ pc = "idle"
    /\ vector_service = "uninitialized"
    /\ vector_service' = "initialized"
    /\ UNCHANGED historyVars
    /\ UNCHANGED <<terms_df, pc, args, results, calls, ret, textVars>>

\* one call of standardize(query, semantic_threshold)
Standardize ==
    /\ pc = "idle"
    /\ \E query \in Queries, semantic_threshold \in Thresholds,
          reply \in Replies(StandardizeTopK + 1) :
          LET r == standardize(terms_df, vector_service, query,
                               semantic_threshold, 0, reply)
          IN  /\ args' = [op |-> "standardize", query |-> query,
                          semantic_threshold |-> semantic_threshold]
              /\ calls' = r.calls
              /\ pc' = IF r.out.raised THEN "raised" ELSE "returned"
              /\ ret' = r.out.value
    /\ UNCHANGED historyVars
    /\ UNCHANGED <<terms_df, vector_service, results, textVars>>

\* batch_standardize(queries, semantic_threshold): `results = []`
BatchStart ==
    /\ pc = "idle"
    /\ \E queries \in SeqsUpTo(Queries, MaxBatch),
          semantic_threshold \in Thresholds :
          args' = [op |-> "batch_standardize", queries |-> queries,
                   semantic_threshold |-> semantic_threshold]
    /\ pc' = "batch"
    /\ results' = <<>>
    /\ UNCHANGED historyVars
    /\ UNCHANGED <<terms_df, vector_service, calls, ret, textVars>>

\* one turn of `for query in queries`
BatchItem ==
    /\ pc = "batch"
    /\ Len(results) < Len(args.queries)
    /\ \E reply \in ItemReplies :
          LET item == Len(results) + 1
              r == standardize(terms_df, vector_service,
                               StrStrip(args.queries[item]),
                               args.semantic_threshold, item, reply)
          IN  /\ calls' = calls \o r.calls
              /\ IF r.out.raised
                 THEN pc' = "raised" /\ UNCHANGED results
                 ELSE pc' = "batch" /\ results' = Append(results, r.out.value)
    /\ UNCHANGED historyVars
    /\ UNCHANGED <<terms_df, vector_service, args, ret, textVars>>

\* `return results`
BatchReturn ==
    /\ pc = "batch"
    /\ Len(results) = Len(args.queries)
    /\ pc' = "returned"
    /\ ret' = results
    /\ UNCHANGED historyVars
    /\ UNCHANGED <<terms_df, vector_service, args, results, calls, textVars>>

\* one call of get_similar_terms(term, limit, threshold)
GetSimilarTerms ==
    /\ pc = "idle"
    /\ \E term \in ReferenceTerms, limit \in 0..MaxLimit,
          threshold \in Thresholds,
          reply \in Replies(MaxLimit + Oversample + 1) :
          LET r == get_similar_terms(vector_service, term, limit, threshold, reply)
          IN  /\ args' = [op |-> "get_similar_terms", term |-> term,
                          limit |-> limit, threshold |-> threshold]
              /\ calls' = r.calls
              /\ pc' = IF r.out.raised THEN "raised" ELSE "returned"
              /\ ret' = r.out.value
    /\ UNCHANGED historyVars
    /\ UNCHANGED <<terms_df, vector_service, results, textVars>>

\* identify_and_replace_terms(text, similarity_threshold, min_word_length):
\* the no-op result for an empty text or an unavailable collaborator,
\* otherwise the extraction of the potential terms
IdentifyStart ==
    /\ pc = "idle"
    /\ \E text \in Texts, similarity_threshold \in Thresholds,
          min_word_length \in MinWordLengths :
          /\ args' = [op |-> "identify_and_replace_terms", text |-> text,
                      similarity_threshold |-> similarity_threshold,
                      min_word_length |-> min_word_length]
          /\ IF text = <<>> \/ ~Available(vector_service)
             THEN /\ pc' = "returned"
                  /\ ret' = [original_text |-> text, processed_text |-> text,
                             identified_terms |-> <<>>, replacements |-> <<>>,
                             message |-> <<"unavailable">>]
                  /\ UNCHANGED textVars
             ELSE /\ pc' = "identify"
                  /\ potential_terms' = ExtractTerms(text, min_word_length)
                  /\ identified_terms' = <<>>
                  /\ turn' = 1
                  /\ UNCHANGED <<ret, sorted_terms, processed_text,
                                 replacement_records, substitutions>>
    /\ UNCHANGED historyVars
    /\ UNCHANGED <<terms_df, vector_service, results, calls>>

\* one turn of `for term in potential_terms`
IdentifyTerm ==
    /\ pc = "identify"
    /\ turn <= Len(potential_terms)
    /\ \E reply \in TextReplies(potential_terms[turn]) :
          LET term == potential_terms[turn]
              block == ExceptContinue(
                           CandidateBlock(terms_df, term,
                                          args.similarity_threshold, reply))
          IN  /\ calls' = calls \o CandidateCalls(terms_df, term, turn, reply)
              /\ IF block.kind = "raise"
                 THEN pc' = "raised" /\ UNCHANGED <<identified_terms, turn>>
                 ELSE /\ pc' = "identify"
                      /\ identified_terms' = identified_terms \o block.value
                      /\ turn' = turn + 1
    /\ UNCHANGED historyVars
    /\ UNCHANGED <<terms_df, vector_service, args, results, ret, potential_terms,
                   sorted_terms, processed_text, replacement_records, substitutions>>

\* a sort in place: identified_terms.sort(key=..., reverse=True)
SortTermsInPlace ==
    /\ pc = "identify"
    /\ turn > Len(potential_terms)
    /\ pc' = "replace"
    /\ processed_text' = args.text
    /\ replacement_records' = <<>>
    /\ identified_terms' = SortedByLength(identified_terms)
    /\ sorted_terms' = identified_terms'
    /\ turn' = 1
    /\ UNCHANGED historyVars
    /\ UNCHANGED <<terms_df, vector_service, args, results, calls, ret,
                   potential_terms, substitutions>>

\* lines 296-301: the identification loop is over; the replacement pass
\* starts from the text, with the identified terms sorted
SortTerms ==
    /\ pc = "identify"
    /\ turn > Len(potential_terms)
    /\ pc' = "replace"
    /\ processed_text' = args.text
    /\ replacement_records' = <<>>
    /\ sorted_terms' = SortedByLength(identified_terms)
    /\ turn' = 1
    /\ UNCHANGED historyVars
    /\ UNCHANGED <<terms_df, vector_service, args, results, calls, ret,
                   potential_terms, identified_terms, substitutions>>

\* one turn of `for item in sorted_terms`
ReplaceTerm ==
    /\ pc = "replace"
    /\ turn <= Len(sorted_terms)
    /\ LET item == sorted_terms[turn]
           count == CountMatches(item.original, processed_text)
           after == IF count > 0
                    THEN Substitute(item.original, item.standard, processed_text)
                    ELSE processed_text
       IN  /\ processed_text' = after
           /\ replacement_records' =
                  IF count > 0
                  THEN Append(replacement_records, ReplacementRecord(item, count))
                  ELSE replacement_records
           /\ substitutions' =
                  Append(substitutions,
                         [item |-> item, before |-> processed_text,
                          after |-> after, count |-> count])
    /\ turn' = turn + 1
    /\ UNCHANGED historyVars
    /\ UNCHANGED <<terms_df, vector_service, pc, args, results, calls, ret,
                   potential_terms, identified_terms, sorted_terms>>

\* lines 324-331: the result
IdentifyReturn ==
    /\ pc = "replace"
    /\ turn > Len(sorted_terms)
    /\ pc' = "returned"
    /\ ret' = [original_text |-> args.text,
               processed_text |-> processed_text,
               identified_terms |-> identified_terms,
               replacements |-> replacement_records,
               total_replacements |-> SumCounts(replacement_records),
               message |-> <<"identified", Len(identified_terms),
                             SumCounts(replacement_records)>>]
    /\ UNCHANGED historyVars
    /\ UNCHANGED <<terms_df, vector_service, args, results, calls, textVars>>

\* the caller takes the result or the exception; the service is idle again
Finish ==
    /\ pc \in {"returned", "raised"}
    /\ pc' = "idle"
    /\ args' = NoArgs
    /\ results' = <<>>
    /\ calls' = <<>>
    /\ ret' = <<>>
    /\ turn' = 0
    /\ potential_terms' = <<>>
    /\ identified_terms' = <<>>
    /\ sorted_terms' = <<>>
    /\ processed_text' = <<>>
    /\ replacement_records' = <<>>
    /\ substitutions' = <<>>
    /\ UNCHANGED historyVars
    /\ UNCHANGED <<terms_df, vector_service>>

\* ------------------------------------------------------------------ HistoryService
\* The history file is taken to be readable and writable: _load_history
\* returns what _save_history wrote last.

HistoryQueries == {"q1", "q2"}
HistoryTypes == {"search", "text_standardize"}
HistoryLimits == {0, 1, 20}

\* history[:limit], limit >= 0
Prefix(history, limit) == SubSeq(history, 1, Min(limit, Len(history)))

\* lines 74-79: the record of one call
Record(query, query_type, results_count, timestamp) ==
    [query |-> query, type |-> query_type, results_count |-> results_count,
     timestamp |-> timestamp]

\* an add_record that puts the new record last
add_record_at_end(history, record, limit) ==
    Prefix(Append(history, record), limit)

\* lines 82-86: history.insert(0, record), then the cut to max_items
add_record(history, record, limit) ==
    LET inserted == <<record>> \o history
    IN  IF Len(inserted) > limit THEN Prefix(inserted, limit) ELSE inserted

get_recent(history, limit) == Prefix(history, limit)

get_by_type(history, query_type, limit) ==
    Prefix(SelectSeq(history, LAMBDA h : h.type = query_type), limit)

get_stats(history) ==
    LET types == {history[k].type : k \in 1..Len(history)}
    IN  [total_records |-> Len(history),
         type_counts |->
             [t \in types |-> Len(SelectSeq(history, LAMBDA h : h.type = t))],
         oldest_record |->
             IF history # <<>> THEN <<history[Len(history)].timestamp>> ELSE None,
         newest_record |->
             IF history # <<>> THEN <<history[1].timestamp>> ELSE None]

callVars == <<results, calls, textVars>>

\* HistoryService.add_record(query, query_type, results_count)
AddRecord ==
    /\ pc = "idle"
    /\ Len(added) < MaxAdds
    /\ \E query \in HistoryQueries, query_type \in HistoryTypes :
          LET record == Record(query, query_type, 1, now)
          IN  /\ args' = [op |-> "add_record", query |-> query,
                          query_type |-> query_type]
              /\ history_file' = add_record(history_file, record, max_items)
              /\ added' = Append(added, record)
    /\ now' = now + 1
    /\ pc' = "returned"
    /\ ret' = None
    /\ UNCHANGED <<terms_df, vector_service, callVars, cleared_at>>

\* HistoryService.get_recent(limit)
GetRecent ==
    /\ pc = "idle"
    /\ \E limit \in HistoryLimits :
          /\ args' = [op |-> "get_recent", limit |-> limit]
          /\ ret' = get_recent(history_file, limit)
    /\ pc' = "returned"
    /\ UNCHANGED <<terms_df, vector_service, callVars, historyVars>>

\* HistoryService.get_by_type(query_type, limit)
GetByType ==
    /\ pc = "idle"
    /\ \E query_type \in HistoryTypes, limit \in HistoryLimits :
          /\ args' = [op |-> "get_by_type", query_type |-> query_type,
                      limit |-> limit]
          /\ ret' = get_by_type(history_file, query_type, limit)
    /\ pc' = "returned"
    /\ UNCHANGED <<terms_df, vector_service, callVars, historyVars>>

\* HistoryService.get_stats()
GetStats ==
    /\ pc = "idle"
    /\ args' = [op |-> "get_stats"]
    /\ ret' = get_stats(history_file)
    /\ pc' = "returned"
    /\ UNCHANGED <<terms_df, vector_service, callVars, historyVars>>

\* HistoryService.clear_history()
ClearHistory ==
    /\ pc = "idle"
    /\ args' = [op |-> "clear_history"]
    /\ history_file' = <<>>
    /\ cleared_at' = Len(added)
    /\ pc' = "returned"
    /\ ret' = None
    /\ UNCHANGED <<terms_df, vector_service, callVars, now, added>>

NextHistory ==
    \/ AddRecord
    \/ GetRecent
    \/ GetByType
    \/ GetStats
    \/ ClearHistory
    \/ Finish

SpecHistory == Init /\ [][NextHistory]_vars

NextMatch ==
    \/ Initialize
    \/ Standardize
    \/ BatchStart
    \/ BatchItem
    \/ BatchReturn
    \/ Finish

SpecMatch == Init /\ [][NextMatch]_vars

NextSimilar ==
    \/ Initialize
    \/ GetSimilarTerms
    \/ Finish

SpecSimilar == Init /\ [][NextSimilar]_vars

NextText ==
    \/ Initialize
    \/ IdentifyStart
    \/ IdentifyTerm
    \/ SortTerms
    \/ ReplaceTerm
    \/ IdentifyReturn
    \/ Finish

SpecText == Init /\ [][NextText]_vars

\* every operation of the TermService
NextCore ==
    \/ Initialize
    \/ Standardize
    \/ BatchStart
    \/ BatchItem
    \/ BatchReturn
    \/ GetSimilarTerms
    \/ IdentifyStart
    \/ IdentifyTerm
    \/ SortTerms
    \/ ReplaceTerm
    \/ IdentifyReturn
    \/ Finish

SpecCore == Init /\ [][NextCore]_vars

\* ------------------------------------------------------------------ claims

Called(op) == pc \in {"returned", "raised"} /\ args.op = op

\* the canonical terms equal to query case-insensitively, in dictionary order
CanonicalHits(query) ==
    SelectSeq(terms_df, LAMBDA r : StrLower(r.term) = StrLower(query))

ExactOutcome(query) ==
    /\ pc = "returned"
    /\ ret.match_type = "exact"
    /\ ret.score = ExactScore
    /\ "similarity" \in DOMAIN ret /\ ret.similarity = SimOne
    /\ ret.standard_term = CanonicalHits(query)[1].term
    /\ ret.candidates = <<>>
    /\ calls = <<>>

\* C1 as stated: every query that equals a canonical term case-insensitively
\* gets the exact outcome (exact, 100, 1.0, the first matching canonical
\* term, no candidates) and the semantic collaborator is not consulted.
C1_ExactForAnyQuery ==
    (Called("standardize") /\ CanonicalHits(args.query) # <<>>)
        => ExactOutcome(args.query)

\* C1 amended: every non-empty query that equals a canonical term
\* case-insensitively gets the exact outcome, whatever the state of the
\* semantic collaborator, and the collaborator is not consulted.
C1_ExactForNonEmptyQuery ==
    (Called("standardize") /\ args.query # <<>> /\ CanonicalHits(args.query) # <<>>)
        => ExactOutcome(args.query)

\* an exact hit on a canonical term spelled differently from the query, two
\* canonical terms matching, with the collaborator ready
C1_Witness ==
    /\ Called("standardize")
    /\ vector_service = "initialized"
    /\ Len(CanonicalHits(args.query)) = 2
    /\ ret.match_type = "exact"
    /\ ret.standard_term # args.query

\* the results the collaborator gave to the one call of a standardize
Retrieved ==
    LET c == calls[1]
        n == IF c.top_k < Len(c.reply.ranking) THEN c.top_k ELSE Len(c.reply.ranking)
    IN  [k \in 1..n |->
            [term |-> c.reply.ranking[k].term,
             similarity |-> Round4(c.reply.ranking[k].raw)]]

SemanticCase ==
    /\ Called("standardize")
    /\ args.query # <<>>
    /\ CanonicalHits(args.query) = <<>>
    /\ calls # <<>>
    /\ ~calls[1].reply.fail
    /\ Retrieved # <<>>

\* C2: with no exact hit and a non-empty retrieval result of best similarity
\* s, the outcome is semantic (with the best term) iff s >= t and otherwise
\* semantic_low with no standard term; in both the score is round(s*100, 2)
\* and the candidates are the retrieval results, one each, in order.
C2_ThresholdBoundary ==
    SemanticCase =>
        LET s == Retrieved[1].similarity
            t == args.semantic_threshold
        IN  /\ pc = "returned"
            /\ (ret.match_type = "semantic") <=> (s >= t)
            /\ s >= t => ret.standard_term = Retrieved[1].term
            /\ s < t => ret.match_type = "semantic_low" /\ ret.standard_term = None
            /\ ret.score = Score(s)
            /\ Len(ret.candidates) = Len(Retrieved)
            /\ \A k \in 1..Len(Retrieved) :
                  /\ ret.candidates[k].term = Retrieved[k].term
                  /\ ret.candidates[k].similarity = Retrieved[k].similarity
                  /\ ret.candidates[k].score = Score(Retrieved[k].similarity)
                  /\ ret.candidates[k].source = "semantic"

\* the best similarity equals the threshold and the outcome is semantic
C2_Witness ==
    /\ SemanticCase
    /\ Retrieved[1].similarity = args.semantic_threshold
    /\ ret.match_type = "semantic"
    /\ Len(ret.candidates) > 1

\* s without its leading and trailing whitespace, said without recursion
Trimmed(s) ==
    LET black == {i \in 1..Len(s) : s[i] \notin Whitespace}
    IN  IF black = {} THEN <<>>
        ELSE SubSeq(s, CHOOSE i \in black : \A j \in black : i <= j,
                       CHOOSE i \in black : \A j \in black : i >= j)

\* the answer the collaborator gave while item i was processed (none when it
\* was not called)
ReplyFor(i) ==
    LET mine == SelectSeq(calls, LAMBDA c : c.item = i)
    IN  IF mine = <<>> THEN Ranks(<<>>) ELSE mine[1].reply

\* C3: batch_standardize returns one result per query, the i-th being what
\* standardize(trim(queries[i]), t) returns on its own, and a retrieval
\* failure on any item neither aborts the batch nor changes another result.
C3_BatchAligned ==
    Called("batch_standardize") =>
        /\ pc = "returned"
        /\ Len(ret) = Len(args.queries)
        /\ \A i \in 1..Len(args.queries) :
              LET alone == standardize(terms_df, vector_service,
                                       Trimmed(args.queries[i]),
                                       args.semantic_threshold, i, ReplyFor(i))
              IN  ~alone.out.raised /\ ret[i] = alone.out.value

\* a batch of two returned although the retrieval failed on one item, the
\* other item being matched only once trimmed
C3_Witness ==
    /\ Called("batch_standardize")
    /\ pc = "returned"
    /\ Len(ret) = 2
    /\ \E c \in {calls[k] : k \in 1..Len(calls)} : c.reply.fail
    /\ \E i \in 1..2 :
          /\ ret[i].match_type = "exact"
          /\ args.queries[i] # Trimmed(args.queries[i])

NoneOutcome ==
    /\ pc = "returned"
    /\ ret.match_type = "none"
    /\ ret.standard_term = None
    /\ ret.score = 0
    /\ ret.candidates = <<>>

\* C4: a failure of the retrieval collaborator during standardize is not
\* propagated: standardize returns the none outcome, the one it returns when
\* the collaborator finds nothing.
C4_FailureIsNone ==
    (Called("standardize") /\ calls # <<>> /\ calls[1].reply.fail) =>
        /\ NoneOutcome
        /\ ret = standardize(terms_df, vector_service, args.query,
                             args.semantic_threshold, 0, Ranks(<<>>)).out.value

\* the collaborator was asked and failed
C4_Witness ==
    /\ Called("standardize")
    /\ calls # <<>>
    /\ calls[1].reply.fail
    /\ calls[1].top_k = StandardizeTopK
    /\ pc = "returned"

\* the retrieval results of the one call of a get_similar_terms that are
\* neither the reference term nor below the threshold, in retrieval order
Eligible ==
    IF calls = <<>> \/ calls[1].reply.fail \/ args.term = <<>> THEN <<>>
    ELSE SelectSeq(Retrieved,
                   LAMBDA e : /\ StrLower(e.term) # StrLower(args.term)
                              /\ e.similarity >= args.threshold)

\* C8: get_similar_terms never returns the reference term (compared
\* case-insensitively) nor an entry whose similarity is below the threshold.
C8_NoSelfNoLow ==
    Called("get_similar_terms") =>
        /\ pc = "returned"
        /\ \A k \in 1..Len(ret) :
              /\ StrLower(ret[k].term) # StrLower(args.term)
              /\ ret[k].similarity >= args.threshold

\* a non-empty answer to a call whose retrieval held the reference term in
\* another case and an entry below the threshold
C8_Witness ==
    /\ Called("get_similar_terms")
    /\ ret # <<>>
    /\ \E k \in 1..Len(Retrieved) :
          Retrieved[k].term # args.term /\ StrLower(Retrieved[k].term) = StrLower(args.term)
    /\ \E k \in 1..Len(Retrieved) : Retrieved[k].similarity < args.threshold

\* C9 as stated: for every limit >= 0, get_similar_terms asks for limit+5
\* results and returns the first `limit` eligible ones (all when fewer), in
\* retrieval order, never more than limit.
C9_TruncatedToLimit ==
    Called("get_similar_terms") =>
        /\ pc = "returned"
        /\ \A k \in 1..Len(calls) : calls[k].top_k = args.limit + 5
        /\ Len(ret) <= args.limit
        /\ Len(ret) = (IF Len(Eligible) < args.limit THEN Len(Eligible) ELSE args.limit)
        /\ \A k \in 1..Len(ret) :
              /\ ret[k].term = Eligible[k].term
              /\ ret[k].similarity = Eligible[k].similarity

\* C9, for the limits the code gets right: the statement above for limit >= 1
C9_TruncatedToPositiveLimit ==
    args.op = "get_similar_terms" /\ args.limit >= 1 => C9_TruncatedToLimit

InPass == args.op = "identify_and_replace_terms" /\ pc \in {"identify", "replace"}

\* identify_and_replace_terms ran both passes and returned
Replaced ==
    /\ args.op = "identify_and_replace_terms"
    /\ pc = "returned"
    /\ args.text # <<>>
    /\ vector_service = "initialized"

\* the position of an identified term in identified_terms
Position(item) == CHOOSE k \in 1..Len(identified_terms) : identified_terms[k] = item

\* short occurs in long as a run of consecutive characters
Contains(long, short) ==
    \E p \in 1..(Len(long) - Len(short) + 1) :
        SubSeq(long, p, p + Len(short) - 1) = short

Mapping(original, standard) ==
    \E k \in 1..Len(identified_terms) :
        /\ identified_terms[k].original = original
        /\ identified_terms[k].standard = standard

\* C5: the replacement pass substitutes the identified terms by descending
\* length of their original, terms of one length in extraction order; so an
\* original contained in a longer one comes after it, and with b -> bc and
\* `a b` -> abc identified the text `a b c` becomes `abc c`.
C5_LongestFirst ==
    (InPass \/ Replaced) =>
        /\ \A j, k \in 1..Len(substitutions) :
              LET x == substitutions[j].item
                  y == substitutions[k].item
              IN  j < k =>
                      /\ Len(x.original) >= Len(y.original)
                      /\ Len(x.original) = Len(y.original) => Position(x) < Position(y)
                      /\ ~(Len(y.original) > Len(x.original)
                              /\ Contains(y.original, x.original))
        /\ Replaced =>
              /\ Len(substitutions) = Len(identified_terms)
              /\ \A k \in 1..Len(identified_terms) :
                    \E j \in 1..Len(substitutions) :
                        substitutions[j].item = identified_terms[k]
              /\ ( /\ args.text = <<"a", " ", "b", " ", "c">>
                   /\ Len(identified_terms) = 2
                   /\ Mapping(<<"b">>, <<"b", "c">>)
                   /\ Mapping(<<"a", " ", "b">>, <<"a", "b", "c">>) )
                      => ret.processed_text = <<"a", "b", "c", " ", "c">>

\* `a b c` with b -> bc identified before `a b` -> abc, and `a b` replaced
\* first
C5_Witness ==
    /\ Replaced
    /\ args.text = <<"a", " ", "b", " ", "c">>
    /\ Len(identified_terms) = 2
    /\ identified_terms[1].original = <<"b">>
    /\ identified_terms[1].standard = <<"b", "c">>
    /\ identified_terms[2].original = <<"a", " ", "b">>
    /\ identified_terms[2].standard = <<"a", "b", "c">>
    /\ substitutions[1].item = identified_terms[2]
    /\ ret.processed_text = <<"a", "b", "c", " ", "c">>

\* two identified terms of one length, replaced in extraction order
C5_TieWitness ==
    /\ Replaced
    /\ Len(identified_terms) = 2
    /\ Len(identified_terms[1].original) = Len(identified_terms[2].original)
    /\ substitutions[1].item = identified_terms[1]

\* the places of text where original stands as a whole word, in any case
Occurrences(original, text) ==
    { p \in 1..Len(text) :
        /\ p + Len(original) - 1 <= Len(text)
        /\ \A k \in 1..Len(original) :
              LowerChar(text[p + k - 1]) = LowerChar(original[k])
        /\ Boundary(text, p)
        /\ Boundary(text, p + Len(original)) }

\* what the turns of the replacement loop did: the count of a turn is the
\* number of occurrences it substituted, every occurrence in the text of
\* that turn was substituted, and the records are the turns with count > 0
CountsAreSubstitutions ==
    /\ \A k \in 1..Len(substitutions) :
          LET st == substitutions[k]
              o == st.item.original
              replaced == Spans(LiteralPattern(o, TRUE), st.before, 1)
          IN  /\ st.count = Len(replaced)
              /\ Len(st.after) =
                     Len(st.before) + st.count * (Len(st.item.standard) - Len(o))
              /\ st.count = 0 => st.after = st.before
              /\ \A p \in Occurrences(o, st.before) :
                     \E n \in 1..Len(replaced) :
                         replaced[n][1] <= p + Len(o) - 1 /\ p <= replaced[n][2]
    /\ LET emitted == SelectSeq(substitutions, LAMBDA st : st.count > 0)
       IN  /\ Len(replacement_records) = Len(emitted)
           /\ \A n \in 1..Len(emitted) :
                 /\ replacement_records[n].original = emitted[n].item.original
                 /\ replacement_records[n].standard = emitted[n].item.standard
                 /\ replacement_records[n].count = emitted[n].count

ExtractionStream ==
    SelectSeq(ReFindAll(WordsPattern(1), args.text),
              LAMBDA w : Len(w) >= args.min_word_length)
        \o ReFindAll(WordsPattern(2), args.text)
        \o ReFindAll(WordsPattern(3), args.text)
        \o ReFindAll(CjkPattern, args.text)

\* the spans of a stream that no earlier span equals case-insensitively
RECURSIVE FirstOfEachKey(_, _)
FirstOfEachKey(stream, k) ==
    IF k > Len(stream) THEN <<>>
    ELSE (IF \A j \in 1..(k - 1) : StrLower(stream[j]) # StrLower(stream[k])
              THEN <<stream[k]>> ELSE <<>>)
            \o FirstOfEachKey(stream, k + 1)

\* C7: no two potential terms have the same lowercase key; the span kept for
\* a key is the first met when the strategies run in the order single
\* words, two words, three words, Chinese runs; the terms are in that order.
C7_Deduplicated ==
    InPass =>
        /\ \A j, k \in 1..Len(potential_terms) :
              j # k => StrLower(potential_terms[j]) # StrLower(potential_terms[k])
        /\ potential_terms = FirstOfEachKey(ExtractionStream, 1)

\* a text in which a key is met twice, in two different cases
C7_Witness ==
    /\ InPass
    /\ Len(potential_terms) >= 2
    /\ \E j, k \in 1..Len(ExtractionStream) :
          /\ j < k
          /\ ExtractionStream[j] # ExtractionStream[k]
          /\ StrLower(ExtractionStream[j]) = StrLower(ExtractionStream[k])

\* what the k-th potential term yields on its own: the identified terms (none
\* or one) of its exact lookup or, without an exact hit, of the answer the
\* collaborator gave to its own call
YieldOf(k) ==
    LET term == potential_terms[k]
        hits == CanonicalHits(term)
        reply == ReplyFor(k)
    IN  IF hits # <<>>
        THEN IF hits[1].term # term
             THEN <<IdentifiedTerm(term, hits[1].term, SimOne, "exact")>>
             ELSE <<>>
        ELSE IF /\ ~reply.fail
                /\ reply.ranking # <<>>
                /\ Round4(reply.ranking[1].raw) >= args.similarity_threshold
                /\ StrLower(reply.ranking[1].term) # StrLower(term)
        THEN <<IdentifiedTerm(term, reply.ranking[1].term,
                              Round4(reply.ranking[1].raw), "semantic")>>
        ELSE <<>>

RECURSIVE YieldsUpTo(_)
YieldsUpTo(k) == IF k = 0 THEN <<>> ELSE YieldsUpTo(k - 1) \o YieldOf(k)

\* C10: a failure while one potential term is processed skips that term
\* only: the call never raises, every term is processed, and each yields
\* what it yields on its own, whatever happened to the others.
C10_FailureSkipsOneTerm ==
    args.op = "identify_and_replace_terms" =>
        /\ pc # "raised"
        /\ pc = "identify" => identified_terms = YieldsUpTo(turn - 1)
        /\ (pc = "replace" \/ Replaced) =>
              /\ identified_terms = YieldsUpTo(Len(potential_terms))
              /\ \A k \in 1..Len(potential_terms) :
                    CanonicalHits(potential_terms[k]) = <<>> =>
                        \E n \in 1..Len(calls) : calls[n].item = k

\* a returned call in which the collaborator failed on one potential term,
\* with a term identified before it and a term identified after it
C10_Witness ==
    /\ Replaced
    /\ \E n \in 1..Len(calls) :
          /\ calls[n].reply.fail
          /\ \E j \in 1..(calls[n].item - 1) : YieldOf(j) # <<>>
          /\ \E j \in (calls[n].item + 1)..Len(potential_terms) :
                 YieldOf(j) # <<>> /\ CanonicalHits(potential_terms[j]) = <<>>

\* the fields of the result of identify_and_replace_terms
ResultFields ==
    {"original_text", "processed_text", "identified_terms", "replacements",
     "total_replacements", "message"}

\* identify_and_replace_terms returned without running the passes
NoOp ==
    /\ Called("identify_and_replace_terms")
    /\ (args.text = <<>> \/ vector_service # "initialized")

\* the sum of the counts of records, said without recursion on the tail
TotalOf(records) ==
    LET RECURSIVE upto(_)
        upto(n) == IF n = 0 THEN 0 ELSE upto(n - 1) + records[n].count
    IN  upto(Len(records))

\* C11: every result of identify_and_replace_terms has the six fields of the
\* result record and its total_replacements is the sum of the counts of its
\* replacements; the no-op result (empty text, collaborator absent or not
\* initialized) has total_replacements = 0 and processed_text = original_text.
C11_FullShape ==
    Called("identify_and_replace_terms") =>
        /\ pc = "returned"
        /\ DOMAIN ret = ResultFields
        /\ ret.total_replacements = TotalOf(ret.replacements)
        /\ ret.original_text = args.text
        /\ NoOp => ret.total_replacements = 0 /\ ret.processed_text = ret.original_text

\* C11, for the results of the full pass: the six fields, the total the sum
\* of the counts
C11_FullShapeAfterPasses ==
    Replaced =>
        /\ DOMAIN ret = ResultFields
        /\ ret.total_replacements = TotalOf(ret.replacements)
        /\ ret.original_text = args.text

\* C11, what the no-op result does have: the text unchanged and nothing
\* identified or replaced
C11_NoOpUnchanged ==
    NoOp =>
        /\ pc = "returned"
        /\ DOMAIN ret = ResultFields \ {"total_replacements"}
        /\ ret.processed_text = ret.original_text
        /\ ret.original_text = args.text
        /\ ret.identified_terms = <<>>
        /\ ret.replacements = <<>>

\* the normalized text of a canonical term: trimmed and case-folded
Normalized(term) == StrLower(Trimmed(term))

\* C12: after the dictionary is loaded no two canonical terms have the same
\* normalized text, whatever the rows of the file, so an exact lookup returns
\* at most one canonical term for any query.
C12_UniqueNormalized ==
    /\ \A i, j \in 1..Len(terms_df) :
          i # j => Normalized(terms_df[i].term) # Normalized(terms_df[j].term)
    /\ \A query \in Queries \cup {terms_df[i].term : i \in 1..Len(terms_df)} :
          Len(search_exact(terms_df, query)) <= 1

\* C12, the duplicates that need no case-folding: two loaded terms that are
\* the same text, left by rows that differ in their whitespace only
C12_NoIdenticalTerms ==
    \A i, j \in 1..Len(terms_df) : i # j => terms_df[i].term # terms_df[j].term

\* the potential terms the identification loop is done with
Processed ==
    IF pc = "identify" THEN turn - 1
    ELSE IF pc = "replace" \/ Replaced THEN Len(potential_terms)
    ELSE 0

\* the identified terms whose original is the k-th potential term
EmittedFor(k) ==
    SelectSeq(identified_terms, LAMBDA t : t.original = potential_terms[k])

\* the calls of search_similar made for the k-th potential term
AskedFor(k) == SelectSeq(calls, LAMBDA c : c.item = k)

\* C13: in the identification pass a candidate with an exact
\* (case-insensitive) dictionary hit is never sent to the semantic
\* collaborator, and an identified term is emitted for it iff the matched
\* standard differs from it case-sensitively, then with match_type exact and
\* similarity 1.0; a candidate without an exact hit yields an identified term
\* only of match_type semantic, only when the top-1 similarity is >= the
\* threshold and the term differs from the candidate case-insensitively.
C13_ExactElseSemantic ==
    args.op = "identify_and_replace_terms" =>
        \A k \in 1..Processed :
            LET term == potential_terms[k]
                hits == CanonicalHits(term)
                emitted == EmittedFor(k)
                asked == AskedFor(k)
            IN  /\ Len(emitted) <= 1
                /\ IF hits # <<>>
                   THEN /\ asked = <<>>
                        /\ (emitted # <<>>) <=> (hits[1].term # term)
                        /\ emitted # <<>> =>
                              /\ emitted[1].match_type = "exact"
                              /\ emitted[1].similarity = SimOne
                              /\ emitted[1].standard = hits[1].term
                   ELSE emitted # <<>> =>
                              /\ emitted[1].match_type = "semantic"
                              /\ Len(asked) = 1
                              /\ asked[1].query = term
                              /\ asked[1].top_k = 1
                              /\ ~asked[1].reply.fail
                              /\ asked[1].reply.ranking # <<>>
                              /\ LET top == asked[1].reply.ranking[1]
                                 IN  /\ Round4(top.raw) >= args.similarity_threshold
                                     /\ StrLower(top.term) # StrLower(term)
                                     /\ emitted[1].standard = top.term
                                     /\ emitted[1].similarity = Round4(top.raw)

\* a returned call with a candidate emitted as exact whose standard differs
\* from it by case only, a candidate with an exact hit equal to it and so
\* not emitted, and a candidate emitted as semantic
C13_Witness ==
    /\ Replaced
    /\ \E k \in 1..Len(potential_terms) :
          /\ CanonicalHits(potential_terms[k]) # <<>>
          /\ EmittedFor(k) # <<>>
          /\ StrLower(EmittedFor(k)[1].standard) = StrLower(potential_terms[k])
          /\ AskedFor(k) = <<>>
    /\ \E k \in 1..Len(potential_terms) :
          /\ CanonicalHits(potential_terms[k]) # <<>>
          /\ EmittedFor(k) = <<>>
    /\ \E k \in 1..Len(potential_terms) :
          /\ CanonicalHits(potential_terms[k]) = <<>>
          /\ EmittedFor(k) # <<>>
          /\ EmittedFor(k)[1].match_type = "semantic"

\* the place of a span among the potential terms
CandidateIndex(original) ==
    CHOOSE k \in 1..Len(potential_terms) : potential_terms[k] = original

\* C14: the identified_terms of the result is the list the identification
\* pass built, in extraction order: the replacement pass does not reorder it
\* (the sort by length works on a copy), keeps the terms whose substitution
\* count was 0, and changes no entry.
C14_IdentifiedTermsAsBuilt ==
    (args.op = "identify_and_replace_terms" /\ (pc = "replace" \/ Replaced)) =>
        LET listed == IF pc = "replace" THEN identified_terms
                      ELSE ret.identified_terms
        IN  /\ listed = YieldsUpTo(Len(potential_terms))
            /\ \A j, k \in 1..Len(listed) :
                  j < k => CandidateIndex(listed[j].original)
                               < CandidateIndex(listed[k].original)
            /\ \A n \in 1..Len(substitutions) :
                  \E k \in 1..Len(listed) : listed[k] = substitutions[n].item
            /\ Replaced => Len(listed) = Len(substitutions)

\* a returned call whose replacement order differs from the extraction
\* order and in which an identified term was substituted 0 times
C14_Witness ==
    /\ Replaced
    /\ Len(ret.identified_terms) >= 2
    /\ sorted_terms # ret.identified_terms
    /\ \E n \in 1..Len(substitutions) :
          /\ substitutions[n].count = 0
          /\ \A r \in 1..Len(ret.replacements) :
                ret.replacements[r].original # substitutions[n].item.original
          /\ \E k \in 1..Len(ret.identified_terms) :
                ret.identified_terms[k] = substitutions[n].item

\* a call is running or has ended while the collaborator is absent or not
\* initialized
Unavailable == args.op # "none" /\ vector_service # "initialized"

\* C15: search_similar is never called on a collaborator that is absent or
\* whose is_initialized is false: in that state standardize (alone or in a
\* batch) returns only exact or none outcomes, get_similar_terms returns an
\* empty list, identify_and_replace_terms returns the text unchanged with
\* nothing identified or replaced, and none of them raises.
C15_NeverCalledWhenUnavailable ==
    Unavailable =>
        /\ calls = <<>>
        /\ pc \notin {"raised", "identify", "replace"}
        /\ Called("standardize") => ret.match_type \in {"exact", "none"}
        /\ args.op = "batch_standardize" =>
              /\ \A k \in 1..Len(results) : results[k].match_type \in {"exact", "none"}
              /\ pc = "returned" => ret = results /\ Len(ret) = Len(args.queries)
        /\ Called("get_similar_terms") => ret = <<>>
        /\ Called("identify_and_replace_terms") =>
              /\ ret.processed_text = args.text
              /\ ret.original_text = args.text
              /\ ret.identified_terms = <<>>
              /\ ret.replacements = <<>>

\* standardize returned none for a query with no exact hit, on a
\* collaborator that is present but not initialized
C15_Witness ==
    /\ Called("standardize")
    /\ vector_service = "uninitialized"
    /\ args.query # <<>>
    /\ CanonicalHits(args.query) = <<>>
    /\ ret.match_type = "none"
    /\ calls = <<>>

\* get_similar_terms returned on an absent collaborator
C15_SimilarWitness ==
    /\ Called("get_similar_terms")
    /\ vector_service = "None"
    /\ args.term # <<>>

\* identify_and_replace_terms returned on a collaborator that is not
\* initialized, for a text that holds a canonical term in another case
C15_TextWitness ==
    /\ Called("identify_and_replace_terms")
    /\ vector_service = "uninitialized"
    /\ \E w \in {<<"a">>, <<"b">>} :
          /\ Contains(args.text, w)
          /\ CanonicalHits(w) # <<>>
          /\ CanonicalHits(w)[1].term # w

\* the place of a record in the stored history, 0 when it is not there
StoredAt(record) ==
    IF \E k \in 1..Len(history_file) : history_file[k] = record
    THEN CHOOSE k \in 1..Len(history_file) : history_file[k] = record
    ELSE 0

SinceClear ==
    LET n == Len(added) - cleared_at
    IN  [k \in 1..n |-> added[Len(added) - k + 1]]

TurnOf(r) ==
    CHOOSE n \in 1..Len(substitutions) :
        /\ substitutions[n].count > 0
        /\ substitutions[n].item.original = replacement_records[r].original

\* the text the n-th turn of the replacement loop worked on, as the turns
\* before it left it
TextBefore(n) == IF n = 1 THEN args.text ELSE substitutions[n - 1].after

\* C17 as stated: the count of every replacement record is at most the
\* number of whole-word, case-insensitive occurrences of its original in the
\* original text: a later, shorter replacement never matches inside the
\* standard text an earlier, longer replacement inserted.
C17_CountWithinOriginalText ==
    (InPass \/ Replaced) =>
        \A r \in 1..Len(replacement_records) :
            replacement_records[r].count
                <= Cardinality(Occurrences(replacement_records[r].original, args.text))

\* C17 amended: the count of every replacement record is at most the number
\* of whole-word, case-insensitive occurrences of its original in the text
\* as the earlier replacements left it (the original text for the first
\* turn, and for every turn before which nothing was substituted), which
\* may stand inside the standard text an earlier replacement inserted.
C17_CountWithinCumulativeText ==
    (InPass \/ Replaced) =>
        /\ \A n \in 1..Len(substitutions) :
              /\ substitutions[n].before = TextBefore(n)
              /\ (\A m \in 1..(n - 1) : substitutions[m].count = 0)
                    => substitutions[n].before = args.text
        /\ \A r \in 1..Len(replacement_records) :
              LET n == TurnOf(r)
                  o == replacement_records[r].original
              IN  /\ replacement_records[r].count
                         <= Cardinality(Occurrences(o, TextBefore(n)))
                  /\ (\A m \in 1..(n - 1) : substitutions[m].count = 0)
                        => replacement_records[r].count
                               <= Cardinality(Occurrences(o, args.text))

\* `ab b AB` with ab -> `b b` replaced first and b -> bc second: b is
\* counted in the text the first replacement left, more often than it
\* stands in the original text
C17_Witness ==
    /\ Replaced
    /\ Len(ret.replacements) = 2
    /\ Len(ret.replacements[1].original) > Len(ret.replacements[2].original)
    /\ ret.replacements[2].count
           > Cardinality(Occurrences(ret.replacements[2].original, args.text))
    /\ ret.replacements[2].count
           = Cardinality(Occurrences(ret.replacements[2].original,
                                     substitutions[1].after))

====
